---- MODULE Spec2Model ----
(***************************************************************************)
(* Model of the markdown segmentation engine of docpilot_backend           *)
(* (src/app/services/chunker.py, class MarkdownChunkerStorage).            *)
(*                                                                         *)
(* Text is modelled as sequences of one-character strings, so that         *)
(* str.split, str.strip, the regular expressions and the f-string          *)
(* rendering of chunk ids are computed, not assumed.  Python indices are   *)
(* 0-based: the scanner index i addresses lines[i + 1] here.               *)
(***************************************************************************)
EXTENDS Integers, Sequences, FiniteSets, TLC

VARIABLES
    max_chunk_size,        \* self.max_chunk_size
    markdown_content,      \* argument of _chunk_document
    filename,              \* argument of _chunk_document
    lines,                 \* markdown_content.split('\n')
    chunks,                \* the list of DocumentChunk being built
    current_section_path,  \* the section path tracker
    chunk_counter,         \* number of chunks emitted so far
    i,                     \* scanner index (0-based)
    pc,                    \* position of the control, see the actions
    files,                 \* index_documents: the file records of the job
    file_pos,              \* index_documents: files iterated so far
    namespace,             \* index_documents: namespace of the current file
    processed_files,       \* index_documents: the per-file results
    success_count,         \* index_documents
    error_count,           \* index_documents
    response,              \* index_documents: the IndexResponse returned
    call_result,           \* value returned by process_and_store_content
    records,               \* _store_chunks: the records built
    batch_start,           \* _store_chunks: i of range(0, len(records), 90)
    index,                 \* the vector store: {namespace, record} entries
    upsert_calls,          \* the calls received by the vector store
    now,                   \* time.time(), in seconds
    suspended              \* the locals of a second, suspended invocation

\* the state of index_documents, _store_chunks and their environment
jobvars == <<files, file_pos, namespace, processed_files, success_count,
             error_count, response, call_result, records, batch_start, index,
             upsert_calls, now>>

vars == <<max_chunk_size, markdown_content, filename, lines, chunks,
          current_section_path, chunk_counter, i, pc, jobvars, suspended>>

(***************************************************************************)
(* Bounds of the explored inputs.                                          *)
(***************************************************************************)
MaxLines == 3          \* documents over the full vocabulary
MaxCoreLines == 5      \* documents over the core vocabulary
MaxChunkSize == 2      \* max_chunk_size ranges over 1..MaxChunkSize
MaxStoreChunks == 185  \* largest number of chunks of a stored document
MaxFiles == 2          \* largest number of files of a multi-file job

(***************************************************************************)
(* Characters and strings.                                                 *)
(***************************************************************************)
Whitespace == {" ", "\t"}
Digits == {"0", "1", "2", "3", "4", "5", "6", "7", "8", "9"}
Bullets == {"-", "*", "+"}
NL == "\n"

SetMin(S) == CHOOSE x \in S : \A y \in S : x <= y
SetMax(S) == CHOOSE x \in S : \A y \in S : x >= y

\* Number of consecutive characters of s, from position from on, lying in S.
RunLen(s, from, S) ==
    LET stops == {k \in from..Len(s) : s[k] \notin S}
    IN  IF stops = {} THEN IF from > Len(s) THEN 0 ELSE Len(s) - from + 1
        ELSE SetMin(stops) - from

\* c in s
Contains(s, c) == \E k \in 1..Len(s) : s[k] = c

\* s.strip()
Strip(s) ==
    LET keep == {k \in 1..Len(s) : s[k] \notin Whitespace}
    IN  IF keep = {} THEN <<>> ELSE SubSeq(s, SetMin(keep), SetMax(keep))

\* s.split('\n'): the text is cut at every separator (computed by cutting
\* at the separator nearest to the middle, then each half in turn)
RECURSIVE Split(_)
Split(s) ==
    LET seps == {k \in 1..Len(s) : s[k] = NL}
        Dist(k) == IF 2 * k >= Len(s) THEN 2 * k - Len(s) ELSE Len(s) - 2 * k
    IN  IF seps = {} THEN <<s>>
        ELSE LET k == CHOOSE p \in seps : \A q \in seps : Dist(p) <= Dist(q)
             IN  Split(SubSeq(s, 1, k - 1)) \o Split(SubSeq(s, k + 1, Len(s)))

\* '\n'.join(ls)
RECURSIVE JoinLines(_)
JoinLines(ls) ==
    IF Len(ls) = 0 THEN <<>>
    ELSE IF Len(ls) = 1 THEN ls[1]
    ELSE LET h == Len(ls) \div 2
         IN  JoinLines(SubSeq(ls, 1, h)) \o <<NL>>
                 \o JoinLines(SubSeq(ls, h + 1, Len(ls)))

DigitChar(d) ==
    CASE d = 0 -> "0" [] d = 1 -> "1" [] d = 2 -> "2" [] d = 3 -> "3"
      [] d = 4 -> "4" [] d = 5 -> "5" [] d = 6 -> "6" [] d = 7 -> "7"
      [] d = 8 -> "8" [] d = 9 -> "9"

\* str(n) for n >= 0
RECURSIVE ToDecimal(_)
ToDecimal(n) ==
    IF n < 10 THEN <<DigitChar(n)>>
    ELSE ToDecimal(n \div 10) \o <<DigitChar(n % 10)>>

(***************************************************************************)
(* The regular expressions, applied with re.match (anchored at the start). *)
(***************************************************************************)
NoMatch == [matched |-> FALSE]

\* re.match(r'^(#{1,6})\s+(.+)$', s): level = len(group(1)),
\* title = group(2).strip()
HeaderMatch(s) ==
    LET h == RunLen(s, 1, {"#"})
        w == RunLen(s, h + 1, Whitespace)
        \* \s+ is greedy but must leave one character to (.+)
        used == IF h + w < Len(s) THEN w ELSE w - 1
    IN  IF h \in 1..6 /\ used >= 1
        THEN [matched |-> TRUE, level |-> h,
              title |-> Strip(SubSeq(s, h + used + 1, Len(s)))]
        ELSE NoMatch

\* re.match(r'^#{1,6}\s+', s)
HeaderStartMatch(s) ==
    LET h == RunLen(s, 1, {"#"})
    IN  h \in 1..6 /\ RunLen(s, h + 1, Whitespace) >= 1

\* length of the marker ([-*+] or \d+\.) found at position from, 0 if none
MarkerLen(s, from) ==
    LET d == RunLen(s, from, Digits)
    IN  IF from <= Len(s) /\ s[from] \in Bullets THEN 1
        ELSE IF d >= 1 /\ from + d <= Len(s) /\ s[from + d] = "." THEN d + 1
        ELSE 0

\* re.match(r'^(\s*[-*+]|\s*\d+\.)\s+', s)
ListStartMatch(s) ==
    LET lead == RunLen(s, 1, Whitespace)
        m == MarkerLen(s, lead + 1)
    IN  m >= 1 /\ RunLen(s, lead + m + 1, Whitespace) >= 1

\* re.match(r'^(\s*)([-*+]|\d+\.)\s+(.+)$', s)
ListItemMatch(s) ==
    LET lead == RunLen(s, 1, Whitespace)
        m == MarkerLen(s, lead + 1)
        w == RunLen(s, lead + m + 1, Whitespace)
        used == IF lead + m + w < Len(s) THEN w ELSE w - 1
    IN  m >= 1 /\ used >= 1

HasPipe(s) == Contains(s, "|")
IsBlank(s) == Strip(s) = <<>>

(***************************************************************************)
(* Chunk construction.                                                     *)
(***************************************************************************)
ChunkType == {"section", "subsection", "content", "list", "table"}

\* ids numbered from 1
ChunkIdOneBased(counter) ==
    <<"c", "h", "u", "n", "k", "_">> \o ToDecimal(counter + 1)

\* f"chunk_{chunk_counter}"
ChunkId(counter) == <<"c", "h", "u", "n", "k", "_">> \o ToDecimal(counter)

\* level 2 taken for a subsection
HeaderChunkTypeStrict(level) == IF level < 2 THEN "section" ELSE "subsection"

\* ChunkType.SECTION if level <= 2 else ChunkType.SUBSECTION
HeaderChunkType(level) == IF level <= 2 THEN "section" ELSE "subsection"

DocumentChunk(content, chunk_id, chunk_type, fname, start_line, end_line, section_path, section_level) ==
    [content |-> content, chunk_id |-> chunk_id, chunk_type |-> chunk_type,
     filename |-> fname, start_line |-> start_line, end_line |-> end_line,
     section_path |-> section_path, section_level |-> section_level]

\* the tracker kept as an unbounded stack below the top-level title
UpdateSectionPathAppend(current_path, title, level) ==
    IF level <= 2 THEN <<title>> ELSE Append(current_path, title)

\* _update_section_path
UpdateSectionPath(current_path, title, level) ==
    IF level = 1 THEN <<title>>
    ELSE IF level = 2 THEN <<title>>
    ELSE IF Len(current_path) >= 1 THEN <<current_path[1], title>>
    ELSE <<title>>

\* An Optional[DocumentChunk] is a sequence of at most one chunk.
None == <<>>


(***************************************************************************)
(* _extract_table_chunk                                                    *)
(***************************************************************************)
\* a loop that goes on through blank lines after the first table line
RECURSIVE TableLoopThroughBlanks(_, _, _)
TableLoopThroughBlanks(ls, idx, table_lines) ==
    IF idx < Len(ls) /\ (HasPipe(ls[idx + 1]) \/ IsBlank(ls[idx + 1]))
    THEN IF HasPipe(ls[idx + 1])
         THEN TableLoopThroughBlanks(ls, idx + 1,
                                     Append(table_lines, ls[idx + 1]))
         ELSE TableLoopThroughBlanks(ls, idx + 1, table_lines)
    ELSE table_lines

\* the while loop: returns table_lines
RECURSIVE TableLoop(_, _, _)
TableLoop(ls, idx, table_lines) ==
    IF idx < Len(ls) /\ (HasPipe(ls[idx + 1]) \/ IsBlank(ls[idx + 1]))
    THEN IF HasPipe(ls[idx + 1])
         THEN TableLoop(ls, idx + 1, Append(table_lines, ls[idx + 1]))
         ELSE IF IsBlank(ls[idx + 1]) /\ table_lines # <<>>
         THEN table_lines
         ELSE TableLoop(ls, idx + 1, table_lines)
    ELSE table_lines

\* a slip in the 0-based to 1-based conversion of end_line
ExtractTableChunkEndOff(ls, start_idx, section_path, chunk_id, fname) ==
    LET table_lines == TableLoop(ls, start_idx, <<>>)
    IN  IF table_lines = <<>> THEN [chunk |-> None, consumed |-> 1]
        ELSE [chunk |-> <<DocumentChunk(JoinLines(table_lines),
                              ChunkId(chunk_id), "table", fname,
                              start_idx + 1, start_idx + 1 + Len(table_lines),
                              section_path, 0)>>,
              consumed |-> Len(table_lines)]

ExtractTableChunk(ls, start_idx, section_path, chunk_id, fname) ==
    LET table_lines == TableLoop(ls, start_idx, <<>>)
    IN  IF table_lines = <<>> THEN [chunk |-> None, consumed |-> 1]
        ELSE [chunk |-> <<DocumentChunk(JoinLines(table_lines),
                              ChunkId(chunk_id), "table", fname,
                              start_idx + 1, start_idx + Len(table_lines),
                              section_path, 0)>>,
              consumed |-> Len(table_lines)]

(***************************************************************************)
(* _extract_list_chunk                                                     *)
(***************************************************************************)
\* the while loop: returns list_lines
RECURSIVE ListLoop(_, _, _)
ListLoop(ls, idx, list_lines) ==
    IF idx < Len(ls)
    THEN IF Strip(ls[idx + 1]) = <<>>
         THEN ListLoop(ls, idx + 1, list_lines)
         ELSE IF ListItemMatch(Strip(ls[idx + 1]))
         THEN ListLoop(ls, idx + 1, Append(list_lines, ls[idx + 1]))
         ELSE list_lines
    ELSE list_lines

\* the lines consumed counted after the first item
ExtractListChunkRest(ls, start_idx, section_path, chunk_id, fname) ==
    LET list_lines == ListLoop(ls, start_idx, <<>>)
    IN  IF list_lines = <<>> THEN [chunk |-> None, consumed |-> 1]
        ELSE [chunk |-> <<DocumentChunk(JoinLines(list_lines),
                              ChunkId(chunk_id), "list", fname,
                              start_idx + 1, start_idx + Len(list_lines),
                              section_path, 0)>>,
              consumed |-> Len(list_lines) - 1]

ExtractListChunk(ls, start_idx, section_path, chunk_id, fname) ==
    LET list_lines == ListLoop(ls, start_idx, <<>>)
    IN  IF list_lines = <<>> THEN [chunk |-> None, consumed |-> 1]
        ELSE [chunk |-> <<DocumentChunk(JoinLines(list_lines),
                              ChunkId(chunk_id), "list", fname,
                              start_idx + 1, start_idx + Len(list_lines),
                              section_path, 0)>>,
              consumed |-> Len(list_lines)]

(***************************************************************************)
(* _extract_content_chunk                                                  *)
(***************************************************************************)
\* the size test made after the last line has been added
ContentLoopGuardInclusive(idx, n, current_size) ==
    idx < n /\ current_size <= max_chunk_size

\* no size test at all
ContentLoopGuardUnbounded(idx, n, current_size) ==
    idx < n

\* while i < len(lines) and current_size < self.max_chunk_size
ContentLoopGuard(idx, n, current_size) ==
    idx < n /\ current_size < max_chunk_size

\* "Stop at headers, lists, or tables"
ContentStop(line) ==
    \/ HeaderStartMatch(Strip(line))
    \/ ListStartMatch(Strip(line))
    \/ HasPipe(line)

\* the while loop: returns content_lines and the final index
RECURSIVE ContentLoop(_, _, _, _)
ContentLoop(ls, idx, content_lines, current_size) ==
    IF ContentLoopGuard(idx, Len(ls), current_size)
    THEN LET line == ls[idx + 1]
         IN  IF ContentStop(line)
             THEN [content_lines |-> content_lines, i |-> idx]
             ELSE IF Strip(line) # <<>>
             THEN ContentLoop(ls, idx + 1, Append(content_lines, line),
                              current_size + Len(line))
             ELSE IF content_lines # <<>>
             THEN ContentLoop(ls, idx + 1, Append(content_lines, line),
                              current_size)
             ELSE ContentLoop(ls, idx + 1, content_lines, current_size)
    ELSE [content_lines |-> content_lines, i |-> idx]

\* the collected lines kept as they are
PopTrailingBlankNone(content_lines) == content_lines

\* "Clean up trailing empty lines"
RECURSIVE PopTrailingBlank(_)
PopTrailingBlank(content_lines) ==
    IF content_lines # <<>> /\ Strip(content_lines[Len(content_lines)]) = <<>>
    THEN PopTrailingBlank(SubSeq(content_lines, 1, Len(content_lines) - 1))
    ELSE content_lines

ExtractContentChunk(ls, start_idx, section_path, chunk_id, fname) ==
    LET loop == ContentLoop(ls, start_idx, <<>>, 0)
        content_lines == PopTrailingBlank(loop.content_lines)
    IN  IF loop.content_lines = <<>> THEN [chunk |-> None, consumed |-> 1]
        ELSE IF content_lines = <<>>
        THEN [chunk |-> None, consumed |-> loop.i - start_idx]
        ELSE [chunk |-> <<DocumentChunk(JoinLines(content_lines),
                              ChunkId(chunk_id), "content", fname,
                              start_idx + 1, start_idx + Len(content_lines),
                              section_path, 0)>>,
              consumed |-> Len(content_lines)]

(***************************************************************************)
(* Inputs.                                                                 *)
(***************************************************************************)
LBlank == <<>>
LSpace == <<" ">>
LTitle == <<"#", " ", "T", "i", "t", "l", "e">>
LH2 == <<"#", "#", " ", "U">>
LH3A == <<"#", "#", "#", " ", "A">>
LH4B == <<" ", "#", "#", "#", "#", " ", "B">>
LHeaderPipe == <<"#", " ", "T", "|">>
LNotHeader == <<"#", "x">>
LPipe == <<"a", "|", "b">>
LItem == <<"-", " ", "x">>
LItemPipe == <<"-", " ", "y", "|">>
LNumbered == <<"1", ".", " ", "n">>
LProse1 == <<"p">>

Vocab == {LBlank, LSpace, LTitle, LH2, LH3A, LH4B, LHeaderPipe, LNotHeader,
          LPipe, LItem, LItemPipe, LNumbered, LProse1}
CoreVocab == {LBlank, LItem, LItemPipe, LPipe, LProse1}

LinesUpTo(V, n) == UNION {[1..k -> V] : k \in 1..n}

\* the documents explored: every text of 1..MaxLines lines over Vocab and of
\* 1..MaxCoreLines lines over CoreVocab (the empty text is the one-line
\* document whose line is empty)
Documents ==
    {JoinLines(ls) : ls \in LinesUpTo(Vocab, MaxLines)
                           \cup LinesUpTo(CoreVocab, MaxCoreLines)}

FileName == <<"d", "o", "c", ".", "m", "d">>

(***************************************************************************)
(* _chunk_document as a state machine: one action per path through one     *)
(* iteration of the main loop.                                             *)
(***************************************************************************)
NoValue == [none |-> TRUE]

\* no job running, nothing stored
IdleJob ==
    /\ files = <<>>
    /\ file_pos = 0
    /\ namespace = <<>>
    /\ processed_files = <<>>
    /\ success_count = 0
    /\ error_count = 0
    /\ response = NoValue
    /\ call_result = NoValue
    /\ records = <<>>
    /\ batch_start = 0
    /\ index = {}
    /\ upsert_calls = <<>>
    /\ now = 0

\* the locals of _chunk_document before its first statement
IdleScanner ==
    /\ lines = <<>>
    /\ chunks = <<>>
    /\ current_section_path = <<>>
    /\ chunk_counter = 0
    /\ i = 0

\* a chunker with any max_chunk_size about to segment any document
Init ==
    /\ max_chunk_size \in 1..MaxChunkSize
    /\ markdown_content \in Documents
    /\ filename = FileName
    /\ IdleScanner
    /\ IdleJob
    /\ suspended = NoValue
    /\ pc = "call"

\* what _chunk_document leaves alone: the instance, its arguments, the
\* state of its callers and the locals of any other invocation
Params == <<max_chunk_size, markdown_content, filename, jobvars, suspended>>

\* lines 137-142
ChunkDocument ==
    /\ pc = "call"
    /\ lines' = Split(markdown_content)
    /\ chunks' = <<>>
    /\ current_section_path' = <<>>
    /\ chunk_counter' = 0
    /\ i' = 0
    /\ pc' = "scan"
    /\ UNCHANGED Params

InLoop == pc = "scan" /\ i < Len(lines)

\* line = lines[i].strip()
CurLine == Strip(lines[i + 1])

header_match == HeaderMatch(CurLine)

\* the table extractor called without the tracked path
TableResultNoPath ==
    ExtractTableChunk(lines, i, <<>>, chunk_counter, filename)

TableResult ==
    ExtractTableChunk(lines, i, current_section_path, chunk_counter, filename)
ListResult ==
    ExtractListChunk(lines, i, current_section_path, chunk_counter, filename)
ContentResult ==
    ExtractContentChunk(lines, i, current_section_path, chunk_counter,
                        filename)

\* if '|' in line and i < len(lines) - 1
TableCond == HasPipe(CurLine) /\ i < Len(lines) - 1
TableTaken == ~header_match.matched /\ TableCond /\ TableResult.chunk # None

ListCond == ListStartMatch(CurLine)
ListTaken ==
    /\ ~header_match.matched /\ ~TableTaken
    /\ ListCond /\ ListResult.chunk # None

\* the content branch entered for blank lines too
ContentCondAlways == TRUE

ContentCond == CurLine # <<>>
ContentTaken ==
    /\ ~header_match.matched /\ ~TableTaken /\ ~ListTaken
    /\ ContentCond /\ ContentResult.chunk # None

Emit(result) ==
    /\ chunks' = Append(chunks, result.chunk[1])
    /\ chunk_counter' = chunk_counter + 1
    /\ i' = i + result.consumed
    /\ UNCHANGED <<Params, lines, current_section_path, pc>>

\* lines 146-171
HeaderStep ==
    /\ InLoop
    /\ header_match.matched
    /\ LET level == header_match.level
           title == header_match.title
           path == UpdateSectionPath(current_section_path, title, level)
       IN  /\ current_section_path' = path
           /\ chunks' = Append(chunks,
                 DocumentChunk(CurLine, ChunkId(chunk_counter),
                               HeaderChunkType(level), filename,
                               i + 1, i + 1, path, level))
    /\ chunk_counter' = chunk_counter + 1
    /\ i' = i + 1
    /\ UNCHANGED <<Params, lines, pc>>

\* lines 173-182
TableStep == InLoop /\ TableTaken /\ Emit(TableResult)

\* lines 184-193
ListStep == InLoop /\ ListTaken /\ Emit(ListResult)

\* lines 195-204
ContentStep == InLoop /\ ContentTaken /\ Emit(ContentResult)

\* line 206: no branch emitted a chunk
SkipStep ==
    /\ InLoop
    /\ ~header_match.matched /\ ~TableTaken /\ ~ListTaken /\ ~ContentTaken
    /\ i' = i + 1
    /\ UNCHANGED <<Params, lines, chunks, current_section_path,
                   chunk_counter, pc>>

\* line 208: the loop condition fails, return chunks
Return ==
    /\ pc = "scan"
    /\ ~(i < Len(lines))
    /\ pc' = "done"
    /\ UNCHANGED <<Params, lines, chunks, current_section_path,
                   chunk_counter, i>>

Next ==
    \/ ChunkDocument
    \/ HeaderStep
    \/ TableStep
    \/ ListStep
    \/ ContentStep
    \/ SkipStep
    \/ Return

Spec == Init /\ [][Next]_vars

\* the call has not returned: the states in which Next can take a step
Running == pc \in {"call", "scan"}

\* the call runs synchronously on its thread, so a statement that can execute
\* does execute: WF_vars(Next), with ENABLED <<Next>>_vars written as Running
\* and the fairness of the return statement stated on its own
Fairness == WF_vars(Return) /\ ([]<>~Running \/ []<><<Next>>_vars)

FairSpec == Spec /\ Fairness

(***************************************************************************)
(* _store_chunks and process_and_store_content                             *)
(***************************************************************************)
\* batch_size = 90
BatchSize == 90

\* MarkdownChunkerStorage() as index_documents builds it
DefaultMaxChunkSize == 800

\* sep.join(parts)
RECURSIVE JoinWith(_, _)
JoinWith(parts, sep) ==
    IF Len(parts) = 0 THEN <<>>
    ELSE IF Len(parts) = 1 THEN parts[1]
    ELSE parts[1] \o sep \o JoinWith(Tail(parts), sep)

\* the separator left out of the id
RecordIdNoSeparator(fname, chunk_id) == fname \o chunk_id

\* f"{chunk.metadata.filename}_{chunk.metadata.chunk_id}"
RecordId(fname, chunk_id) == fname \o <<"_">> \o chunk_id

\* the record dict of one chunk
Record(chunk, timestamp) ==
    [_id |-> RecordId(chunk.filename, chunk.chunk_id),
     chunk_text |-> chunk.content,
     filename |-> chunk.filename,
     chunk_id |-> chunk.chunk_id,
     chunk_type |-> chunk.chunk_type,
     start_line |-> chunk.start_line,
     end_line |-> chunk.end_line,
     section_path |-> JoinWith(chunk.section_path, <<" ", ">", " ">>),
     section_level |-> chunk.section_level,
     content_length |-> Len(chunk.content),
     timestamp |-> timestamp]

\* a slice that stops one record early
BatchOfShort(recs, start) ==
    SubSeq(recs, start + 1,
           IF start + BatchSize - 1 < Len(recs) THEN start + BatchSize - 1
           ELSE Len(recs))

\* records[i:i + batch_size]
BatchOf(recs, start) ==
    SubSeq(recs, start + 1,
           IF start + BatchSize < Len(recs) THEN start + BatchSize
           ELSE Len(recs))

\* the vector store after upsert_records(ns, batch): a record replaces the
\* stored record of the same namespace and id
Upserted(idx, ns, batch) ==
    {e \in idx : ~(e.namespace = ns
                   /\ \E k \in 1..Len(batch) : batch[k]._id = e.record._id)}
    \cup {[namespace |-> ns, record |-> batch[k]] : k \in 1..Len(batch)}

\* a count for every chunk type, 0 for the types that do not occur
ChunkTypeStatsAllTypes(cs) ==
    [t \in ChunkType |->
        Cardinality({k \in 1..Len(cs) : cs[k].chunk_type = t})]

\* _get_chunk_type_stats
ChunkTypeStats(cs) ==
    [t \in {cs[k].chunk_type : k \in 1..Len(cs)} |->
        Cardinality({k \in 1..Len(cs) : cs[k].chunk_type = t})]

ScannerVars == <<lines, chunks, current_section_path, chunk_counter, i>>
CallVars == <<max_chunk_size, markdown_content, filename, namespace>>
LoopVars == <<files, file_pos, processed_files, success_count, error_count,
              response>>

\* lines 346-365: the records are built, the batch loop starts
StoreChunks ==
    /\ pc = "done"
    /\ records' = [k \in 1..Len(chunks) |-> Record(chunks[k], now)]
    /\ batch_start' = 0
    /\ pc' = "upsert"
    /\ UNCHANGED <<suspended, ScannerVars, CallVars, LoopVars, call_result, index,
                   upsert_calls, now>>

\* a loop that submits one batch before it tests for the end
InBatchLoopAtLeastOnce ==
    pc = "upsert" /\ (batch_start < Len(records) \/ batch_start = 0)

InBatchLoop == pc = "upsert" /\ batch_start < Len(records)

UpsertCall(ok) ==
    [namespace |-> namespace, records |-> BatchOf(records, batch_start),
     ok |-> ok, time |-> now, file |-> file_pos]

\* lines 367-368: the upsert of the batch returns
UpsertOk ==
    /\ InBatchLoop
    /\ index' = Upserted(index, namespace, BatchOf(records, batch_start))
    /\ upsert_calls' = Append(upsert_calls, UpsertCall(TRUE))
    /\ pc' = "sleep"
    /\ UNCHANGED <<suspended, ScannerVars, CallVars, LoopVars, call_result, records,
                   batch_start, now>>

\* a failed upsert that is logged and ignored
UpsertFailIgnored ==
    /\ InBatchLoop
    /\ upsert_calls' = Append(upsert_calls, UpsertCall(FALSE))
    /\ pc' = "sleep"
    /\ UNCHANGED <<suspended, ScannerVars, CallVars, LoopVars, call_result, records,
                   batch_start, index, now>>

\* line 368: the upsert of the batch raises; nothing catches the exception
\* in _store_chunks nor in process_and_store_content
UpsertFail ==
    /\ InBatchLoop
    /\ upsert_calls' = Append(upsert_calls, UpsertCall(FALSE))
    /\ pc' = "raised"
    /\ UNCHANGED <<suspended, ScannerVars, CallVars, LoopVars, call_result, records,
                   batch_start, index, now>>

\* the next batch taken at once, without the delay
SleepNoDelay ==
    /\ pc = "sleep"
    /\ batch_start' = batch_start + BatchSize
    /\ pc' = "upsert"
    /\ UNCHANGED <<suspended, ScannerVars, CallVars, LoopVars, call_result,
                   records, index, upsert_calls, now>>

\* line 369 and the next value of range(0, len(records), batch_size)
Sleep ==
    /\ pc = "sleep"
    /\ now' = now + 1
    /\ batch_start' = batch_start + BatchSize
    /\ pc' = "upsert"
    /\ UNCHANGED <<suspended, ScannerVars, CallVars, LoopVars, call_result, records,
                   index, upsert_calls>>

\* the batch loop ends; lines 95-100
StoreReturn ==
    /\ pc = "upsert"
    /\ ~(batch_start < Len(records))
    /\ call_result' = [filename |-> filename, total_chunks |-> Len(chunks),
                       chunk_types |-> ChunkTypeStats(chunks),
                       status |-> "success"]
    /\ pc' = "returned"
    /\ UNCHANGED <<suspended, ScannerVars, CallVars, LoopVars, records, batch_start,
                   index, upsert_calls, now>>

(***************************************************************************)
(* index_documents (src/app/routes/embedding.py)                           *)
(***************************************************************************)
\* FileProcessingResult(...).dict()
FileProcessingResult(file_id, fname, ns, status, total_chunks, chunk_types, error_message) ==
    [file_id |-> file_id, filename |-> fname, namespace |-> ns,
     status |-> status, total_chunks |-> total_chunks,
     chunk_types |-> chunk_types, error_message |-> error_message]

\* the defaults of FileProcessingResult
DefaultTotalChunks == 0
DefaultChunkTypes == <<>>
DefaultErrorMessage == "None"

\* str(e) of the exception of a failed upsert
UpsertError == "upsert failed"

IndexResponse(message, results, total_files, successes, errors) ==
    [message |-> message, processed_files |-> results,
     total_files |-> total_files, success_count |-> successes,
     error_count |-> errors]

\* lines 70-78
NoFiles ==
    /\ pc = "job"
    /\ files = <<>>
    /\ response' = IndexResponse(<<"No files found to index">>, <<>>, 0, 0, 0)
    /\ pc' = "finished"
    /\ UNCHANGED <<suspended, ScannerVars, CallVars, files, file_pos, processed_files,
                   success_count, error_count, call_result, records,
                   batch_start, index, upsert_calls, now>>

\* lines 81-98: the next file record, process_and_store_content is called
ProcessFile ==
    /\ pc = "job"
    /\ file_pos < Len(files)
    /\ LET file_record == files[file_pos + 1]
       IN  /\ filename' = file_record.filename
           /\ markdown_content' = file_record.content
           /\ namespace' = file_record.filename
    /\ pc' = "call"
    /\ UNCHANGED <<suspended, ScannerVars, max_chunk_size, LoopVars, call_result,
                   records, batch_start, index, upsert_calls, now>>

\* lines 100-112
FileSucceeded ==
    /\ pc = "returned"
    /\ processed_files' = Append(processed_files,
          FileProcessingResult(files[file_pos + 1].id, filename, namespace,
                               "success", call_result.total_chunks,
                               call_result.chunk_types, DefaultErrorMessage))
    /\ success_count' = success_count + 1
    /\ file_pos' = file_pos + 1
    /\ pc' = "job"
    /\ UNCHANGED <<suspended, ScannerVars, CallVars, files, error_count, response,
                   call_result, records, batch_start, index, upsert_calls,
                   now>>

\* the exception of one file ends the job
FileFailedAbort ==
    /\ pc = "raised"
    /\ response' = IndexResponse(<<"Internal server error">>, processed_files,
                                 Len(files), success_count, error_count)
    /\ pc' = "finished"
    /\ UNCHANGED <<suspended, ScannerVars, CallVars, files, file_pos, processed_files,
                   success_count, error_count, call_result, records,
                   batch_start, index, upsert_calls, now>>

\* lines 114-127: except Exception as e
FileFailed ==
    /\ pc = "raised"
    /\ processed_files' = Append(processed_files,
          FileProcessingResult(files[file_pos + 1].id, filename, namespace,
                               "error", DefaultTotalChunks, DefaultChunkTypes,
                               UpsertError))
    /\ error_count' = error_count + 1
    /\ file_pos' = file_pos + 1
    /\ pc' = "job"
    /\ UNCHANGED <<suspended, ScannerVars, CallVars, files, success_count, response,
                   call_result, records, batch_start, index, upsert_calls,
                   now>>

\* lines 129-138
ResponseMessage ==
    IF success_count = Len(files)
    THEN <<"Successfully indexed all ", success_count, " files">>
    ELSE IF success_count > 0
    THEN <<"Indexed ", success_count, " files successfully, ", error_count,
           " files failed">>
    ELSE <<"Failed to index all ", error_count, " files">>

\* lines 129-146: the loop is over
JobFinish ==
    /\ pc = "job"
    /\ files # <<>>
    /\ ~(file_pos < Len(files))
    /\ response' = IndexResponse(ResponseMessage, processed_files, Len(files),
                                 success_count, error_count)
    /\ pc' = "finished"
    /\ UNCHANGED <<suspended, ScannerVars, CallVars, files, file_pos, processed_files,
                   success_count, error_count, call_result, records,
                   batch_start, index, upsert_calls, now>>

(***************************************************************************)
(* The indexing jobs explored.                                             *)
(***************************************************************************)
\* n header lines: a document of n chunks whatever max_chunk_size is
HeadersDoc(n) == JoinLines([k \in 1..n |-> LTitle])

\* a header, a table, a blank line, a list and a prose line
MixedDoc == JoinLines(<<LTitle, LPipe, LPipe, LBlank, LItem, LProse1>>)

EmptyDoc == <<>>

\* chunk counts around the multiples of the batch size
StoreSizes == {n \in 1..MaxStoreChunks : n % BatchSize \in {0, 1, 5, 89}}

OtherFileName == <<"b", ".", "m", "d">>

FileRecord(id, fname, content) ==
    [id |-> id, filename |-> fname, content |-> content]

\* one file "doc.md" of every size of StoreSizes
SingleFileJobs ==
    {<<FileRecord(1, FileName, HeadersDoc(n))>> : n \in StoreSizes}

\* up to MaxFiles files, each empty, mixed or of two batches
JobDocs == {EmptyDoc, MixedDoc, HeadersDoc(BatchSize + 1)}
JobFileNames == [k \in 1..(MaxFiles + 1) |->
                    IF k % 2 = 1 THEN FileName ELSE OtherFileName]

MultiFileJobs ==
    UNION {{[k \in 1..n |-> FileRecord(k, JobFileNames[k], docs[k])] :
               docs \in [1..n -> JobDocs]} : n \in 0..MaxFiles}

\* a file indexed twice in one job: the same filename, any two contents
ReindexJobs ==
    {<<FileRecord(1, FileName, first), FileRecord(2, FileName, second)>> :
        first \in JobDocs, second \in JobDocs}

Jobs == SingleFileJobs \cup MultiFileJobs \cup ReindexJobs

\* index_documents after the file records were read
InitJob ==
    /\ max_chunk_size = DefaultMaxChunkSize
    /\ markdown_content = <<>>
    /\ filename = <<>>
    /\ IdleScanner
    /\ IdleJob!2 /\ IdleJob!3 /\ IdleJob!4 /\ IdleJob!5 /\ IdleJob!6
    /\ IdleJob!7 /\ IdleJob!8 /\ IdleJob!9 /\ IdleJob!10 /\ IdleJob!11
    /\ IdleJob!12 /\ IdleJob!13
    /\ files \in Jobs
    /\ suspended = NoValue
    /\ pc = "job"

NextJob ==
    \/ NoFiles
    \/ ProcessFile
    \/ ChunkDocument
    \/ HeaderStep
    \/ TableStep
    \/ ListStep
    \/ ContentStep
    \/ SkipStep
    \/ Return
    \/ StoreChunks
    \/ UpsertOk
    \/ UpsertFail
    \/ Sleep
    \/ StoreReturn
    \/ FileSucceeded
    \/ FileFailed
    \/ JobFinish

SpecJob == InitJob /\ [][NextJob]_vars

(***************************************************************************)
(* Two invocations of _chunk_document on one chunker instance, interleaved.*)
(* Every name the function assigns is a local (lines 137-142): each        *)
(* invocation has its own frame, the instance attribute max_chunk_size is  *)
(* the only state they share.  The variables of the scanner are the frame  *)
(* of the running invocation, suspended is the frame of the other one.     *)
(***************************************************************************)
\* the frame of an invocation; interleaved records that a switch took place
\* while both invocations were inside the loop
Frame(content, fname, ls, cs, path, counter, idx, at, mixed) ==
    [markdown_content |-> content, filename |-> fname, lines |-> ls,
     chunks |-> cs, current_section_path |-> path, chunk_counter |-> counter,
     i |-> idx, pc |-> at, interleaved |-> mixed]

\* a switch that leaves chunk_counter in place, as an attribute of the
\* instance would be
SwitchSharedCounter ==
    /\ suspended # NoValue
    /\ suspended' = Frame(markdown_content, filename, lines, chunks,
                          current_section_path, chunk_counter, i, pc,
                          suspended.interleaved
                             \/ (pc = "scan" /\ suspended.pc = "scan"))
    /\ markdown_content' = suspended.markdown_content
    /\ filename' = suspended.filename
    /\ lines' = suspended.lines
    /\ chunks' = suspended.chunks
    /\ current_section_path' = suspended.current_section_path
    /\ chunk_counter' = chunk_counter
    /\ i' = suspended.i
    /\ pc' = suspended.pc
    /\ UNCHANGED <<max_chunk_size, jobvars>>

\* the interpreter suspends the running invocation and resumes the other
Switch ==
    /\ suspended # NoValue
    /\ suspended' = Frame(markdown_content, filename, lines, chunks,
                          current_section_path, chunk_counter, i, pc,
                          suspended.interleaved
                             \/ (pc = "scan" /\ suspended.pc = "scan"))
    /\ markdown_content' = suspended.markdown_content
    /\ filename' = suspended.filename
    /\ lines' = suspended.lines
    /\ chunks' = suspended.chunks
    /\ current_section_path' = suspended.current_section_path
    /\ chunk_counter' = suspended.chunk_counter
    /\ i' = suspended.i
    /\ pc' = suspended.pc
    /\ UNCHANGED <<max_chunk_size, jobvars>>

\* the documents of the first invocation
PairVocab == {LBlank, LTitle, LH3A, LPipe, LItem, LProse1}
PairDocs == {JoinLines(ls) : ls \in LinesUpTo(PairVocab, MaxLines)}

\* the arguments of the second invocation
OtherCalls ==
    {[markdown_content |-> MixedDoc, filename |-> OtherFileName],
     [markdown_content |-> JoinLines(<<LTitle, LH3A, LItem>>),
      filename |-> FileName]}

InitPair ==
    /\ max_chunk_size \in 1..MaxChunkSize
    /\ markdown_content \in PairDocs
    /\ filename = FileName
    /\ IdleScanner
    /\ IdleJob
    /\ \E call \in OtherCalls :
         suspended = Frame(call.markdown_content, call.filename, <<>>, <<>>,
                           <<>>, 0, 0, "call", FALSE)
    /\ pc = "call"

NextPair == Next \/ Switch

SpecPair == InitPair /\ [][NextPair]_vars

(***************************************************************************)
(* _chunk_document as a function of its arguments and of max_chunk_size.   *)
(***************************************************************************)
\* the while loop from index idx on; acc is the list of chunks so far
RECURSIVE ScanLoop(_, _, _, _, _, _)
ScanLoop(ls, fname, idx, path, counter, acc) ==
    IF ~(idx < Len(ls)) THEN acc
    ELSE
      LET line == Strip(ls[idx + 1])
          hm == HeaderMatch(line)
          table == ExtractTableChunk(ls, idx, path, counter, fname)
          list == ExtractListChunk(ls, idx, path, counter, fname)
          content == ExtractContentChunk(ls, idx, path, counter, fname)
          new_path == UpdateSectionPath(path, hm.title, hm.level)
      IN  IF hm.matched
          THEN ScanLoop(ls, fname, idx + 1, new_path, counter + 1,
                   Append(acc, DocumentChunk(line, ChunkId(counter),
                                  HeaderChunkType(hm.level), fname, idx + 1,
                                  idx + 1, new_path, hm.level)))
          ELSE IF HasPipe(line) /\ idx < Len(ls) - 1 /\ table.chunk # None
          THEN ScanLoop(ls, fname, idx + table.consumed, path, counter + 1,
                        Append(acc, table.chunk[1]))
          ELSE IF ListStartMatch(line) /\ list.chunk # None
          THEN ScanLoop(ls, fname, idx + list.consumed, path, counter + 1,
                        Append(acc, list.chunk[1]))
          ELSE IF line # <<>> /\ content.chunk # None
          THEN ScanLoop(ls, fname, idx + content.consumed, path, counter + 1,
                        Append(acc, content.chunk[1]))
          ELSE ScanLoop(ls, fname, idx + 1, path, counter, acc)

\* _chunk_document(content, fname) of a chunker whose max_chunk_size is the
\* one of the instance
ChunkDocumentOf(content, fname) ==
    ScanLoop(Split(content), fname, 0, <<>>, 0, <<>>)

(***************************************************************************)
(* Vocabulary of the properties.  These predicates are written from the    *)
(* wording of the properties, independently of the operators above.        *)
(***************************************************************************)
Done == pc = "done"
NumLines == Len(lines)
ChunkIdx == 1..Len(chunks)
HeaderTypes == {"section", "subsection"}

\* 1-6 '#' characters, whitespace, then a title (on the trimmed line)
IsHeaderLine(line) ==
    LET s == Strip(line)
    IN  \E h \in 1..6 :
          /\ Len(s) > h + 1
          /\ \A k \in 1..h : s[k] = "#"
          /\ s[h + 1] \in Whitespace
          /\ \E k \in (h + 2)..Len(s) : s[k] \notin Whitespace

\* the number of leading '#' of the trimmed line
HashCount(line) == RunLen(Strip(line), 1, {"#"})

\* '-', '*', '+' or 'N.' followed by whitespace and text (on the trimmed line)
IsListItem(line) ==
    LET s == Strip(line)
    IN  \E m \in 1..Len(s) :
          /\ \/ m = 1 /\ s[1] \in Bullets
             \/ m >= 2 /\ s[m] = "." /\ \A k \in 1..(m - 1) : s[k] \in Digits
          /\ Len(s) > m + 1
          /\ s[m + 1] \in Whitespace

IsStructural(line) == IsHeaderLine(line) \/ IsListItem(line) \/ HasPipe(line)
IsProse(line) == ~IsBlank(line) /\ ~IsStructural(line)

\* the type the priority header > table > list > content gives a line
PriorityType(line) ==
    IF IsHeaderLine(line) THEN HeaderTypes
    ELSE IF HasPipe(line) THEN {"table"}
    ELSE IF IsListItem(line) THEN {"list"}
    ELSE {"content"}

\* the value of a decimal numeral
RECURSIVE DecimalValue(_)
DecimalValue(ds) ==
    IF ds = <<>> THEN 0
    ELSE 10 * DecimalValue(SubSeq(ds, 1, Len(ds) - 1))
         + (CHOOSE d \in 0..9 : DigitChar(d) = ds[Len(ds)])

\* sum of the lengths of the non-blank lines a..b of the document
RECURSIVE NonBlankSize(_, _)
NonBlankSize(a, b) ==
    IF a > b THEN 0
    ELSE (IF IsBlank(lines[b]) THEN 0 ELSE Len(lines[b]))
         + NonBlankSize(a, b - 1)

\* sum of the lengths of the lines a..b of the document
RECURSIVE TotalSize(_, _)
TotalSize(a, b) ==
    IF a > b THEN 0 ELSE Len(lines[b]) + TotalSize(a, b - 1)

ChunksOfTypeStartingIn(type, a, b) ==
    {k \in ChunkIdx : /\ chunks[k].chunk_type = type
                      /\ chunks[k].start_line \in a..b}

(***************************************************************************)
(* C1: the emitted chunks have start_line <= end_line, lie inside          *)
(* 1..number of lines, and each chunk ends before the next one starts.     *)
(***************************************************************************)
C1_OrderedDisjoint ==
    pc # "call" =>
      \A k \in ChunkIdx :
        /\ 1 <= chunks[k].start_line
        /\ chunks[k].start_line <= chunks[k].end_line
        /\ chunks[k].end_line <= NumLines
        /\ k < Len(chunks) => chunks[k].end_line < chunks[k + 1].start_line

\* a finished scan with a multi-line table followed by a further chunk
C1_Witness ==
    /\ Done
    /\ \E k \in ChunkIdx :
         /\ chunks[k].chunk_type = "table"
         /\ chunks[k].end_line > chunks[k].start_line
         /\ k < Len(chunks)

(***************************************************************************)
(* C2: the k-th emitted chunk (k = 0..N-1) carries the id "chunk_k": the   *)
(* ids are 0..N-1 in emission order without gap or duplicate, also when    *)
(* an extractor returned no chunk.                                         *)
(***************************************************************************)
C2_SequentialIds ==
    /\ \A k \in ChunkIdx :
         /\ Len(chunks[k].chunk_id) > 6
         /\ SubSeq(chunks[k].chunk_id, 1, 6) = <<"c", "h", "u", "n", "k", "_">>
         /\ \A j \in 7..Len(chunks[k].chunk_id) :
              chunks[k].chunk_id[j] \in Digits
         /\ DecimalValue(SubSeq(chunks[k].chunk_id, 7,
                                Len(chunks[k].chunk_id))) = k - 1
    /\ \A j, k \in ChunkIdx : j # k => chunks[j].chunk_id # chunks[k].chunk_id
    /\ chunk_counter = Len(chunks)

\* a finished scan with three chunk types whose final '|' line gave no chunk
C2_Witness ==
    /\ Done
    /\ Cardinality({chunks[k].chunk_type : k \in ChunkIdx}) >= 3
    /\ HasPipe(lines[NumLines])
    /\ chunks[Len(chunks)].end_line < NumLines

(***************************************************************************)
(* C3: every chunk has the type that the priority header > table > list >  *)
(* content gives the line it starts at, at every line index including the  *)
(* last one.                                                               *)
(***************************************************************************)
C3_PriorityEverywhere ==
    pc # "call" =>
      \A k \in ChunkIdx :
        chunks[k].chunk_type \in PriorityType(lines[chunks[k].start_line])

C4_HeaderEmission ==
    (InLoop /\ IsHeaderLine(lines[i + 1])) =>
        /\ i' = i + 1
        /\ Len(chunks') = Len(chunks) + 1
        /\ SubSeq(chunks', 1, Len(chunks)) = chunks
        /\ LET c == chunks'[Len(chunks')]
               level == HashCount(lines[i + 1])
           IN  /\ c.start_line = i + 1
               /\ c.end_line = i + 1
               /\ c.section_level = level
               /\ c.chunk_type = IF level <= 2 THEN "section" ELSE "subsection"
               /\ c.content = Strip(lines[i + 1])

C4_Levels ==
    /\ \A k \in ChunkIdx :
         chunks[k].chunk_type \notin HeaderTypes => chunks[k].section_level = 0
    /\ (Done /\ markdown_content = <<"#", " ", "T", "i", "t", "l", "e">>) =>
         chunks = << [content |-> <<"#", " ", "T", "i", "t", "l", "e">>,
                      chunk_id |-> <<"c", "h", "u", "n", "k", "_", "0">>,
                      chunk_type |-> "section", filename |-> filename,
                      start_line |-> 1, end_line |-> 1,
                      section_path |-> << <<"T", "i", "t", "l", "e">> >>,
                      section_level |-> 1] >>

(***************************************************************************)
(* C4: a header line reached by the scanner emits exactly one chunk with   *)
(* start_line = end_line = its line number, section_level = its number of  *)
(* '#', type Section up to level 2 and Subsection above, and the scanner   *)
(* advances one line; non-header chunks have section_level 0; the document *)
(* "# Title" yields the single chunk Section, "# Title", 1..1, ["Title"],  *)
(* level 1.                                                                *)
(***************************************************************************)
C4_Header == []C4_Levels /\ [][C4_HeaderEmission]_vars

\* a finished scan that emitted a Section, a Subsection and a non-header chunk
C4_Witness ==
    /\ Done
    /\ \E k \in ChunkIdx : chunks[k].chunk_type = "section"
    /\ \E k \in ChunkIdx :
         chunks[k].chunk_type = "subsection" /\ chunks[k].section_level = 4
    /\ \E k \in ChunkIdx : chunks[k].chunk_type \notin HeaderTypes

BlankDelimitedPipeBlock(a, b) ==
    /\ 1 < a /\ a <= b /\ b < NumLines
    /\ \A k \in a..b : HasPipe(lines[k])
    /\ ~IsHeaderLine(lines[a])
    /\ IsBlank(lines[a - 1])
    /\ IsBlank(lines[b + 1])

OneTableChunkExactly(a, b) ==
    /\ \E k \in ChunkIdx :
         /\ chunks[k].chunk_type = "table"
         /\ chunks[k].start_line = a
         /\ chunks[k].end_line = b
    /\ Cardinality({k \in ChunkIdx :
           /\ chunks[k].start_line <= b
           /\ chunks[k].end_line >= a}) = 1

PipeRunToEnd(a) ==
    /\ a \in 1..NumLines
    /\ \A k \in a..NumLines : HasPipe(lines[k]) /\ ~IsHeaderLine(lines[k])
    /\ a > 1 => ~HasPipe(lines[a - 1])

(***************************************************************************)
(* C6: a run of contiguous '|' lines that ends with the document, of any   *)
(* length >= 1, is emitted as exactly one Table chunk spanning the run.    *)
(***************************************************************************)
C6_TableRunToEnd ==
    Done =>
      \A a \in 1..NumLines :
        PipeRunToEnd(a) =>
          /\ \E k \in ChunkIdx :
               /\ chunks[k].chunk_type = "table"
               /\ chunks[k].start_line = a
               /\ chunks[k].end_line = NumLines
          /\ Cardinality({k \in ChunkIdx : chunks[k].end_line >= a}) = 1

PlainItem(line) == IsListItem(line) /\ ~HasPipe(line)

ListRun(a, b) ==
    /\ 1 <= a /\ a <= b /\ b <= NumLines
    /\ PlainItem(lines[a]) /\ PlainItem(lines[b])
    /\ \A k \in a..b : PlainItem(lines[k]) \/ IsBlank(lines[k])
    \* the nearest non-blank line before a, and after b, is not a list item
    /\ \A k \in 1..(a - 1) :
         (\A j \in (k + 1)..(a - 1) : IsBlank(lines[j])) =>
             IsBlank(lines[k]) \/ ~IsListItem(lines[k])
    /\ \A k \in (b + 1)..NumLines :
         (\A j \in (b + 1)..(k - 1) : IsBlank(lines[j])) =>
             IsBlank(lines[k]) \/ ~IsListItem(lines[k])

(***************************************************************************)
(* C7: a list run whose items are separated by blank lines is emitted as   *)
(* exactly one List chunk from the first item's line to the last item's    *)
(* line, and no item of the run is emitted again in a later chunk.  (The   *)
(* items considered hold no '|', which would make them table lines.)       *)
(***************************************************************************)
C7_ListRunOneChunk ==
    Done =>
      \A a, b \in 1..NumLines :
        ListRun(a, b) =>
          /\ \E k \in ChunkIdx :
               /\ chunks[k].chunk_type = "list"
               /\ chunks[k].start_line = a
               /\ chunks[k].end_line = b
          /\ Cardinality({k \in ChunkIdx : chunks[k].start_line \in a..b}) = 1

NonBlankCount(c) ==
    Cardinality({k \in c.start_line..c.end_line : ~IsBlank(lines[k])})

(***************************************************************************)
(* C8 as claimed: every Content chunk of two or more non-blank lines has   *)
(* a cumulative character count <= max_chunk_size.                         *)
(***************************************************************************)
C8_SizeNeverExceeded ==
    pc # "call" =>
      \A k \in ChunkIdx :
        (chunks[k].chunk_type = "content" /\ NonBlankCount(chunks[k]) >= 2) =>
          NonBlankSize(chunks[k].start_line, chunks[k].end_line)
              <= max_chunk_size

(***************************************************************************)
(* C8 as amended: a line is added to a Content chunk that already holds a  *)
(* line only if the lengths of the non-blank lines the chunk holds BEFORE   *)
(* adding it sum to less than max_chunk_size; so every Content chunk       *)
(* without its last line has a cumulative character count below            *)
(* max_chunk_size (with its last line it may exceed it).                   *)
(***************************************************************************)
C8_SizeTestedBeforeAdding ==
    pc # "call" =>
      \A k \in ChunkIdx :
        chunks[k].chunk_type = "content" =>
          \A n \in (chunks[k].start_line + 1)..chunks[k].end_line :
            NonBlankSize(chunks[k].start_line, n - 1) < max_chunk_size

\* a Content chunk of two non-blank lines that is larger than max_chunk_size
C8_Witness ==
    /\ Done
    /\ \E k \in ChunkIdx :
         /\ chunks[k].chunk_type = "content"
         /\ NonBlankCount(chunks[k]) >= 2
         /\ NonBlankSize(chunks[k].start_line, chunks[k].end_line)
               > max_chunk_size

\* a maximal run of non-structural lines, without its outer blank lines
ProseBlock(a, b) ==
    /\ 1 <= a /\ a <= b /\ b <= NumLines
    /\ IsProse(lines[a]) /\ IsProse(lines[b])
    /\ \A k \in a..b : ~IsStructural(lines[k])
    /\ \A k \in 1..(a - 1) :
         (\A j \in (k + 1)..(a - 1) : IsBlank(lines[j])) => ~IsProse(lines[k])
    /\ \A k \in (b + 1)..NumLines :
         (\A j \in (b + 1)..(k - 1) : IsBlank(lines[j])) => ~IsProse(lines[k])

ContentChunksOf(a, b) == Cardinality(ChunksOfTypeStartingIn("content", a, b))

(***************************************************************************)
(* C9 as claimed: a prose block whose total character length exceeds       *)
(* max_chunk_size is emitted as at least two Content chunks.               *)
(***************************************************************************)
C9_OversizedBlockSplits ==
    Done =>
      \A a, b \in 1..NumLines :
        (ProseBlock(a, b) /\ TotalSize(a, b) > max_chunk_size) =>
            ContentChunksOf(a, b) >= 2

(***************************************************************************)
(* C9 as amended: a prose block is emitted as at least two Content chunks  *)
(* exactly when the lengths of its non-blank lines before its last line    *)
(* sum to max_chunk_size or more; a block that exceeds max_chunk_size only *)
(* with its last line (a single over-long line in particular) is emitted   *)
(* as one Content chunk.                                                   *)
(***************************************************************************)
C9_BlockSplitRule ==
    Done =>
      \A a, b \in 1..NumLines :
        ProseBlock(a, b) =>
          /\ ContentChunksOf(a, b) >= 1
          /\ ContentChunksOf(a, b) >= 2
                <=> NonBlankSize(a, b - 1) >= max_chunk_size

\* a block split in two Content chunks, the first one of two lines and
\* larger than max_chunk_size
C9_Witness ==
    /\ Done
    /\ \E a, b \in 1..NumLines :
         /\ ProseBlock(a, b)
         /\ ContentChunksOf(a, b) >= 2
         /\ \E k \in ChunksOfTypeStartingIn("content", a, b) :
              /\ chunks[k].end_line > chunks[k].start_line
              /\ NonBlankSize(chunks[k].start_line, chunks[k].end_line)
                    > max_chunk_size

TitleOf(c) == HeaderMatch(c.content).title

(***************************************************************************)
(* C10: a header of level >= 3 gets the path [title of the most recent     *)
(* level-1/2 header, its title] if a level-1 or level-2 header was seen    *)
(* before it, and [its title] alone otherwise, also when earlier headers   *)
(* of level >= 3 were seen.                                                *)
(***************************************************************************)
C10_DeepHeaderPath ==
    \A k \in ChunkIdx :
      chunks[k].chunk_type = "subsection" =>
        LET tops == {j \in 1..(k - 1) : chunks[j].chunk_type = "section"}
        IN  chunks[k].section_path =
              IF tops = {} THEN <<TitleOf(chunks[k])>>
              ELSE <<TitleOf(chunks[SetMax(tops)]), TitleOf(chunks[k])>>

C11_TopLevelReset ==
    (InLoop /\ IsHeaderLine(lines[i + 1]) /\ HashCount(lines[i + 1]) <= 2) =>
        current_section_path' = <<HeaderMatch(Strip(lines[i + 1])).title>>

C11_Depth ==
    /\ Len(current_section_path) <= 2
    /\ (\E k \in ChunkIdx : chunks[k].chunk_type \in HeaderTypes) =>
           Len(current_section_path) \in {1, 2}
    /\ \A k \in ChunkIdx : Len(chunks[k].section_path) <= 2

(***************************************************************************)
(* C11: after any non-empty sequence of headers the tracked path has 1 or  *)
(* 2 elements; right after a level-1 or level-2 header it is [title]; the  *)
(* section_path of every chunk has at most 2 elements.                     *)
(***************************************************************************)
C11_PathDepth == []C11_Depth /\ [][C11_TopLevelReset]_vars

\* three headers in a row, the last two below level 2, the path still of 2
C11_Witness ==
    /\ Done
    /\ Len(chunks) = 3
    /\ \A k \in ChunkIdx : chunks[k].chunk_type \in HeaderTypes
    /\ chunks[2].section_level >= 3
    /\ chunks[3].section_level >= 3
    /\ Len(chunks[3].section_path) = 2

\* the header chunks before chunk k
HeadersBefore(k) == {j \in 1..(k - 1) : chunks[j].chunk_type \in HeaderTypes}

C12_PathOfContext ==
    \A k \in ChunkIdx :
      IF chunks[k].chunk_type \in HeaderTypes
      THEN /\ chunks[k].section_path # <<>>
           /\ chunks[k].section_path[Len(chunks[k].section_path)]
                 = HeaderMatch(chunks[k].content).title
      ELSE chunks[k].section_path =
             IF HeadersBefore(k) = {} THEN <<>>
             ELSE chunks[SetMax(HeadersBefore(k))].section_path

C12_Emission ==
    (pc = "scan" /\ pc' = "scan") =>
        /\ Len(chunks') >= Len(chunks)
        /\ SubSeq(chunks', 1, Len(chunks)) = chunks
        /\ Len(chunks') > Len(chunks) =>
             chunks'[Len(chunks')].section_path = current_section_path'
        /\ current_section_path' # current_section_path =>
             IsHeaderLine(lines[i + 1])

(***************************************************************************)
(* C12: each chunk stores the tracker's path as it stands when the chunk   *)
(* is emitted: a header chunk the path already updated by itself, a        *)
(* Table/List/Content chunk the path of the nearest preceding header       *)
(* chunk (empty if none); the path changes only on header lines and a      *)
(* later header never changes a chunk emitted earlier.                     *)
(***************************************************************************)
C12_SectionPathOfChunks == []C12_PathOfContext /\ [][C12_Emission]_vars

\* a table chunk under a header, followed by a further chunk
C12_Witness ==
    /\ Done
    /\ \E k \in ChunkIdx :
         /\ chunks[k].chunk_type = "table"
         /\ chunks[k].section_path # <<>>
         /\ k < Len(chunks)

C13_BlankSkipped ==
    (InLoop /\ IsBlank(lines[i + 1])) =>
        /\ i' = i + 1
        /\ chunks' = chunks
        /\ chunk_counter' = chunk_counter
        /\ current_section_path' = current_section_path

C13_BlankDocument ==
    (Done /\ \A k \in 1..NumLines : IsBlank(lines[k])) => chunks = <<>>

(***************************************************************************)
(* C13: the empty document and every document of blank lines only yield    *)
(* zero chunks; a blank line met by the scanner gives no chunk and         *)
(* advances the scanner by exactly one line.                               *)
(***************************************************************************)
C13_BlankLines == []C13_BlankDocument /\ [][C13_BlankSkipped]_vars

\* a finished scan of several blank lines, one of them made of whitespace
C13_Witness ==
    /\ Done
    /\ NumLines >= 2
    /\ \A k \in 1..NumLines : IsBlank(lines[k])
    /\ \E k \in 1..NumLines : lines[k] # <<>>
    /\ chunks = <<>>

(***************************************************************************)
(* Properties of the storage phase and of the indexing job.                *)
(***************************************************************************)
\* the upsert calls made for the file at 0-based position f of the job
CallsOfFile(f) ==
    LET OfFile(c) == c.file = f
    IN  SelectSeq(upsert_calls, OfFile)

\* the calls of the file being processed
CurrentCalls == CallsOfFile(file_pos)

\* the record sequence follows the chunk sequence
RecordsInChunkOrder ==
    /\ Len(records) = Len(chunks)
    /\ \A k \in 1..Len(chunks) :
         /\ records[k].chunk_text = chunks[k].content
         /\ records[k].start_line = chunks[k].start_line

\* record j of call k is record 90 * (k - 1) + j of the record sequence,
\* and the calls together carry every record
BatchesConcatenateTo(calls, recs) ==
    /\ \A k \in 1..Len(calls) :
         \A j \in 1..Len(calls[k].records) :
           /\ 90 * (k - 1) + j <= Len(recs)
           /\ calls[k].records[j] = recs[90 * (k - 1) + j]
    /\ \A n \in 1..Len(recs) :
         /\ (n + 89) \div 90 <= Len(calls)
         /\ n - 90 * ((n - 1) \div 90)
               <= Len(calls[(n + 89) \div 90].records)

(***************************************************************************)
(* C14: when _store_chunks returns for a document of N chunks, it has made *)
(* exactly ceil(N/90) upsert calls (none when N = 0), every call carries   *)
(* between 1 and 90 records, every call but the last exactly 90, and the   *)
(* batches in call order concatenate to the record sequence in chunk       *)
(* order; N = 185 gives calls of sizes 90, 90, 5.                          *)
(***************************************************************************)
C14_Batches ==
    pc = "returned" =>
      LET calls == CurrentCalls
          N == Len(chunks)
      IN  /\ \A k \in 1..Len(calls) : calls[k].ok
          /\ Len(calls) = (N + 89) \div 90
          /\ N = 0 => calls = <<>>
          /\ \A k \in 1..Len(calls) : Len(calls[k].records) \in 1..90
          /\ \A k \in 1..(Len(calls) - 1) : Len(calls[k].records) = 90
          /\ RecordsInChunkOrder
          /\ BatchesConcatenateTo(calls, records)
          /\ \A k \in 1..Len(calls) : calls[k].namespace = namespace
          /\ N = 185 =>
               [k \in 1..Len(calls) |-> Len(calls[k].records)] = <<90, 90, 5>>

\* a document of 185 chunks stored in three calls
C14_Witness ==
    /\ pc = "returned"
    /\ Len(chunks) = 185
    /\ Len(CurrentCalls) = 3
    /\ Len(CurrentCalls[3].records) = 5

\* the states in which the records of the current document exist
RecordsBuilt == pc \in {"upsert", "sleep", "raised", "returned"}

\* "doc.md_chunk_12"
DocChunk12 ==
    <<"d", "o", "c", ".", "m", "d", "_", "c", "h", "u", "n", "k", "_", "1",
      "2">>

(***************************************************************************)
(* C15: each chunk yields exactly one record, the k-th record of the k-th  *)
(* chunk, whose id is filename + "_" + chunk_id; the record ids of one     *)
(* document are pairwise distinct; chunk 12 of "doc.md" has the id         *)
(* "doc.md_chunk_12".                                                      *)
(***************************************************************************)
C15_RecordIds ==
    RecordsBuilt =>
      /\ RecordsInChunkOrder
      /\ \A k \in 1..Len(records) :
           /\ records[k]._id = filename \o <<"_">> \o chunks[k].chunk_id
           /\ records[k].chunk_id = chunks[k].chunk_id
           /\ records[k].filename = filename
      /\ Cardinality({records[k]._id : k \in 1..Len(records)}) = Len(records)
      /\ (filename = <<"d", "o", "c", ".", "m", "d">> /\ Len(records) >= 13) =>
           records[13]._id = DocChunk12

\* the records of a document "doc.md" of more than 12 chunks
C15_Witness ==
    /\ pc = "returned"
    /\ Len(records) >= 13
    /\ records[13]._id = DocChunk12
    /\ records[13].chunk_text = chunks[13].content

\* the processing of the file at 0-based position f raised
ProcessingRaised(f) ==
    \E k \in 1..Len(upsert_calls) :
      upsert_calls[k].file = f /\ ~upsert_calls[k].ok

C16_Results ==
    /\ Len(processed_files) = file_pos
    /\ file_pos <= Len(files)
    /\ success_count + error_count = Len(processed_files)
    /\ \A k \in 1..Len(processed_files) :
         /\ processed_files[k].file_id = files[k].id
         /\ processed_files[k].filename = files[k].filename
         /\ processed_files[k].status \in {"success", "error"}
         /\ processed_files[k].status = "error" <=> ProcessingRaised(k - 1)
    /\ success_count =
         Cardinality({k \in 1..Len(processed_files) :
                        processed_files[k].status = "success"})
    /\ pc = "finished" =>
         /\ response.processed_files = processed_files
         /\ Len(response.processed_files) = Len(files)
         /\ response.total_files = Len(files)
         /\ response.success_count + response.error_count
               = response.total_files

C16_Attempts ==
    /\ pc = "raised" => (pc' = "job" /\ file_pos' = file_pos + 1)
    /\ file_pos' \in {file_pos, file_pos + 1}
    /\ file_pos' = file_pos + 1 => Len(processed_files') = file_pos + 1
    /\ (pc = "job" /\ pc' = "call") =>
         /\ filename' = files[file_pos + 1].filename
         /\ markdown_content' = files[file_pos + 1].content
    /\ (pc # "job" /\ pc' = "call") => FALSE
    /\ pc' = "finished" => file_pos = Len(files)

(***************************************************************************)
(* C16: a storage failure of one document does not abort the indexing job: *)
(* the documents are attempted once each in list order, the job returns    *)
(* one result per document with status "success" or "error",               *)
(* success_count + error_count = total_files, and a document's status is   *)
(* "error" exactly when its own processing raised.                         *)
(***************************************************************************)
C16_FailureIsolated == []C16_Results /\ [][C16_Attempts]_vars

\* a finished job of two files, the first failed and the second stored
C16_Witness ==
    /\ pc = "finished"
    /\ Len(files) = 2
    /\ response.processed_files[1].status = "error"
    /\ response.processed_files[2].status = "success"

\* the result of the file processed last, while its chunks are still held
LastResult == processed_files[file_pos]

\* the number of chunks of each type among the chunks produced
TypeCounts ==
    [t \in {chunks[k].chunk_type : k \in ChunkIdx} |->
        Cardinality({k \in ChunkIdx : chunks[k].chunk_type = t})]

(***************************************************************************)
(* C17: when the segmentation of a document succeeded and a batch          *)
(* submission for it failed, the result reported for the document carries  *)
(* the error status and message together with the chunk counts of the      *)
(* chunking phase: total_chunks is the number of chunks produced and       *)
(* chunk_types the per-type counts.                                        *)
(***************************************************************************)
C17_ErrorResultCarriesCounts ==
    (pc = "job" /\ file_pos >= 1 /\ ProcessingRaised(file_pos - 1)) =>
        /\ LastResult.status = "error"
        /\ LastResult.error_message = UpsertError
        /\ LastResult.total_chunks = Len(chunks)
        /\ LastResult.chunk_types = TypeCounts

C18_NoRollback ==
    /\ \A j \in 1..Len(upsert_calls) : \A k \in (j + 1)..Len(upsert_calls) :
         upsert_calls[j].file = upsert_calls[k].file => upsert_calls[j].ok
    /\ pc = "raised" =>
         /\ CurrentCalls # <<>>
         /\ ~CurrentCalls[Len(CurrentCalls)].ok
         /\ Len(CurrentCalls) = batch_start \div 90 + 1
         /\ \A j \in 1..batch_start :
              [namespace |-> namespace, record |-> records[j]] \in index
    /\ pc = "returned" =>
         /\ call_result.status = "success"
         /\ ~ProcessingRaised(file_pos)
         /\ Len(CurrentCalls) = (Len(records) + 89) \div 90
    /\ \A f \in 1..Len(processed_files) :
         processed_files[f].status = "success" =>
           /\ ~ProcessingRaised(f - 1)
           /\ Len(CallsOfFile(f - 1))
                 = (processed_files[f].total_chunks + 89) \div 90

C18_Propagation ==
    /\ pc = "raised" =>
         /\ index' = index
         /\ upsert_calls' = upsert_calls
         /\ call_result' = call_result
         /\ pc' # "returned"
         /\ processed_files'[Len(processed_files')].status = "error"
    /\ \A e \in index : \E d \in index' :
         d.namespace = e.namespace /\ d.record._id = e.record._id
    /\ pc' = "returned" => pc = "upsert" /\ ~(batch_start < Len(records))

(***************************************************************************)
(* C18: when the upsert of a batch of a document fails, the failure        *)
(* reaches the caller of process_and_store_content and no "success" result *)
(* is returned, no later batch of the document is submitted, and the       *)
(* batches submitted before stay stored; a "success" result is returned    *)
(* only after every batch of the document was submitted without failure.   *)
(***************************************************************************)
C18_FailurePropagates == []C18_NoRollback /\ [][C18_Propagation]_vars

\* the second batch of a document fails while the first is stored
C18_Witness ==
    /\ pc = "raised"
    /\ batch_start = 90
    /\ Len(records) > 90
    /\ [namespace |-> namespace, record |-> records[90]] \in index
    /\ \A e \in index : e.record # records[91]

C20_Advance ==
    /\ (pc = "scan" /\ pc' = "scan") =>
         /\ i < Len(lines)
         /\ i' >= i + 1
         /\ i' <= Len(lines)
         /\ Len(chunks') > Len(chunks) => Len(chunks') = Len(chunks) + 1
         /\ chunks' = chunks => i' = i + 1
    /\ (pc = "scan" /\ pc' # "scan") =>
         /\ pc' = "done"
         /\ i = Len(lines)
         /\ chunks' = chunks

C20_InRange ==
    /\ pc \in {"call", "scan", "done"}
    /\ pc = "scan" => i <= Len(lines)
    /\ pc = "done" => i = Len(lines)

(***************************************************************************)
(* C20: the scan of _chunk_document terminates for every document and      *)
(* reaches no error state: every iteration of the main loop advances the   *)
(* line index by at least 1 (an iteration that emits a chunk by the lines  *)
(* the extractor consumed, at least 1; one that emits none by exactly 1)   *)
(* and the loop ends once the index reaches the number of lines.           *)
(***************************************************************************)
C20_ScanTerminates == []C20_InRange /\ [][C20_Advance]_vars /\ <>Done

\* a finished scan that skipped a line and emitted a chunk of several lines
C20_Witness ==
    /\ Done
    /\ NumLines >= 3
    /\ i = NumLines
    /\ \E k \in 1..NumLines : IsBlank(lines[k])
    /\ \E k \in ChunkIdx : chunks[k].end_line > chunks[k].start_line

\* the invocation whose frame is f has returned what it returns run alone
ReturnsAsAlone(f) ==
    f.pc = "done" => f.chunks = ChunkDocumentOf(f.markdown_content, f.filename)

\* the frame of the running invocation
CurrentFrame ==
    Frame(markdown_content, filename, lines, chunks, current_section_path,
          chunk_counter, i, pc, FALSE)

(***************************************************************************)
(* C19: segmentation is a function of (content, filename, max_chunk_size): *)
(* of two invocations interleaved in any order on one chunker instance,    *)
(* each returns the chunk sequence it returns when run alone, and two      *)
(* invocations with identical arguments return identical chunk sequences   *)
(* (contents, ids, types, line ranges, paths, levels).                     *)
(***************************************************************************)
C19_PureSegmentation ==
    /\ ReturnsAsAlone(CurrentFrame)
    /\ suspended # NoValue =>
         /\ ReturnsAsAlone(suspended)
         /\ (/\ pc = "done" /\ suspended.pc = "done"
             /\ markdown_content = suspended.markdown_content
             /\ filename = suspended.filename) => chunks = suspended.chunks

\* two different documents segmented to the end, switched while both were
\* inside the loop
C19_Witness ==
    /\ suspended # NoValue
    /\ pc = "done" /\ suspended.pc = "done"
    /\ suspended.interleaved
    /\ markdown_content # suspended.markdown_content
    /\ Len(chunks) >= 2 /\ Len(suspended.chunks) >= 2

\* two invocations with the same arguments, interleaved, both returned
C19_WitnessSame ==
    /\ suspended # NoValue
    /\ pc = "done" /\ suspended.pc = "done"
    /\ suspended.interleaved
    /\ markdown_content = suspended.markdown_content
    /\ filename = suspended.filename
    /\ Len(chunks) = 3

\* the count a chunk_types mapping gives to type t, 0 if t is absent
CountIn(chunk_types, t) ==
    IF t \in DOMAIN chunk_types THEN chunk_types[t] ELSE 0

\* a result dict of process_and_store_content agrees with the chunks emitted
StatsAgree(total_chunks, chunk_types) ==
    /\ total_chunks = Len(chunks)
    /\ DOMAIN chunk_types = {chunks[k].chunk_type : k \in ChunkIdx}
    /\ \A t \in DOMAIN chunk_types :
         /\ chunk_types[t] >= 1
         /\ chunk_types[t] =
              Cardinality({k \in ChunkIdx : chunks[k].chunk_type = t})
    /\ CountIn(chunk_types, "section") + CountIn(chunk_types, "subsection")
         + CountIn(chunk_types, "content") + CountIn(chunk_types, "list")
         + CountIn(chunk_types, "table") = total_chunks

(***************************************************************************)
(* C21: for a successfully processed document total_chunks is the number   *)
(* of emitted chunks, chunk_types maps each chunk type that occurs to the  *)
(* number of chunks of that type, types that do not occur are absent, and  *)
(* the counts of chunk_types add up to total_chunks.                       *)
(***************************************************************************)
C21_StatsOfResult ==
    /\ pc = "returned" =>
         /\ call_result.status = "success"
         /\ call_result.filename = filename
         /\ StatsAgree(call_result.total_chunks, call_result.chunk_types)
    /\ (pc = "job" /\ file_pos >= 1 /\ LastResult.status = "success") =>
         StatsAgree(LastResult.total_chunks, LastResult.chunk_types)

\* the result of a document of four chunk types, one of them absent
C21_Witness ==
    /\ pc = "job"
    /\ file_pos >= 1
    /\ LastResult.status = "success"
    /\ LastResult.total_chunks = 4
    /\ DOMAIN LastResult.chunk_types = {"section", "table", "list", "content"}

(***************************************************************************)
(* C22: a document that produces zero chunks is not an error:              *)
(* process_and_store_content makes no upsert call for it and returns       *)
(* status "success" with total_chunks = 0 and an empty chunk_types.        *)
(***************************************************************************)
C22_EmptyResult ==
    /\ (pc \in {"upsert", "sleep", "raised"} /\ chunks = <<>>) =>
         /\ pc = "upsert"
         /\ records = <<>>
         /\ CurrentCalls = <<>>
    /\ (pc = "returned" /\ chunks = <<>>) =>
         /\ CurrentCalls = <<>>
         /\ call_result.status = "success"
         /\ call_result.total_chunks = 0
         /\ DOMAIN call_result.chunk_types = {}
    /\ (pc = "job" /\ file_pos >= 1 /\ chunks = <<>>) =>
         /\ LastResult.status = "success"
         /\ LastResult.total_chunks = 0
         /\ DOMAIN LastResult.chunk_types = {}
         /\ CallsOfFile(file_pos - 1) = <<>>

\* the empty document processed: no chunk, no call, a success result
C22_Witness ==
    /\ pc = "job"
    /\ file_pos >= 1
    /\ files[file_pos].content = <<>>
    /\ chunks = <<>>
    /\ LastResult.status = "success"
    /\ LastResult.total_chunks = 0

\* lines a..b and c..d are two groups of '|' lines with only blank lines,
\* at least one, between them
TwoPipeGroups(a, b, c, d) ==
    /\ 1 <= a /\ a <= b /\ b + 1 < c /\ c <= d /\ d <= NumLines
    /\ \A n \in a..b : HasPipe(lines[n])
    /\ \A n \in (b + 1)..(c - 1) : IsBlank(lines[n])
    /\ \A n \in c..d : HasPipe(lines[n])

(***************************************************************************)
(* C23: a table run tolerates interior blank lines once it has started:    *)
(* two groups of '|' lines separated only by blank lines, the first of     *)
(* which starts a Table chunk, are collected into that one Table chunk;    *)
(* no second chunk starts in the second group.                             *)
(***************************************************************************)
C23_TableToleratesBlanks ==
    Done =>
      \A a, b, c, d \in 1..NumLines :
        (/\ TwoPipeGroups(a, b, c, d)
         /\ ChunksOfTypeStartingIn("table", a, a) # {}) =>
            \A k \in ChunkIdx : chunks[k].start_line \notin (a + 1)..d

C24_InOrder ==
    /\ \A j \in 1..Len(upsert_calls) : \A k \in (j + 1)..Len(upsert_calls) :
         upsert_calls[j].file = upsert_calls[k].file =>
           /\ upsert_calls[j].ok
           /\ upsert_calls[k].time >= upsert_calls[j].time + (k - j)
    /\ RecordsBuilt =>
         \A k \in 1..Len(CurrentCalls) :
           /\ CurrentCalls[k].records # <<>>
           /\ CurrentCalls[k].records[1] = records[90 * (k - 1) + 1]
           /\ k <= batch_start \div 90 + 1

C24_OneAtATime ==
    /\ upsert_calls' # upsert_calls =>
         /\ pc = "upsert"
         /\ pc' \in {"sleep", "raised"}
         /\ Len(upsert_calls') = Len(upsert_calls) + 1
         /\ SubSeq(upsert_calls', 1, Len(upsert_calls)) = upsert_calls
         /\ now' = now
    /\ pc = "sleep" =>
         /\ pc' = "upsert"
         /\ now' > now
         /\ upsert_calls' = upsert_calls
         /\ upsert_calls[Len(upsert_calls)].ok

(***************************************************************************)
(* C24: the batches of one document are submitted one after the other in   *)
(* record order: the upsert of batch k+1 starts only after the upsert of   *)
(* batch k has returned, a pacing delay lies between every two consecutive *)
(* submissions, and no two upserts of the document are in flight together. *)
(***************************************************************************)
C24_SequentialPacedBatches == []C24_InOrder /\ [][C24_OneAtATime]_vars

\* three batches of one document, submitted at three different times
C24_Witness ==
    /\ pc = "returned"
    /\ Len(CurrentCalls) = 3
    /\ CurrentCalls[1].time < CurrentCalls[2].time
    /\ CurrentCalls[2].time < CurrentCalls[3].time

(***************************************************************************)
(* C25: the timestamp of every record is the clock value at the time the   *)
(* record's batch is submitted: the records of the k-th batch of a         *)
(* document carry the time of the k-th upsert call.                        *)
(***************************************************************************)
C25_TimestampAtSubmission ==
    \A k \in 1..Len(upsert_calls) :
      \A j \in 1..Len(upsert_calls[k].records) :
        upsert_calls[k].records[j].timestamp = upsert_calls[k].time

\* line n lies in the line range of some chunk
InSomeChunk(n) ==
    \E k \in ChunkIdx : chunks[k].start_line <= n /\ n <= chunks[k].end_line

\* the blank lines that directly follow line n
BlankTailOf(n) ==
    {m \in (n + 1)..NumLines : \A j \in (n + 1)..m : IsBlank(lines[j])}

C26_ContentShape ==
    pc # "call" =>
      \A k \in ChunkIdx :
        chunks[k].chunk_type = "content" =>
          LET c == chunks[k]
          IN  /\ 1 <= c.start_line /\ c.start_line <= c.end_line
              /\ c.end_line <= NumLines
              /\ ~IsBlank(lines[c.start_line])
              /\ ~IsBlank(lines[c.end_line])
              /\ Split(c.content) = SubSeq(lines, c.start_line, c.end_line)
              /\ Done => \A m \in BlankTailOf(c.end_line) : ~InSomeChunk(m)

C26_Resume ==
    LET n == Len(chunks')
    IN  (pc = "scan" /\ n > Len(chunks)
           /\ chunks'[n].chunk_type = "content") =>
          /\ chunks'[n].start_line = i + 1
          /\ i' = chunks'[n].end_line

(***************************************************************************)
(* C26: every Content chunk starts with a non-blank line and ends with a   *)
(* non-blank line, the blank lines between two prose lines of one          *)
(* accumulation are kept inside the chunk, and the scanner resumes at the  *)
(* first line after the chunk's end_line, so the trimmed blank lines are   *)
(* in no chunk.                                                            *)
(***************************************************************************)
C26_ContentTrimmed == []C26_ContentShape /\ [][C26_Resume]_vars

\* a Content chunk with a blank line inside and a trimmed blank line after
C26_Witness ==
    /\ Done
    /\ \E k \in ChunkIdx :
         /\ chunks[k].chunk_type = "content"
         /\ \E n \in (chunks[k].start_line + 1)..(chunks[k].end_line - 1) :
              IsBlank(lines[n])
         /\ BlankTailOf(chunks[k].end_line) # {}

\* the chunks whose line range holds line n
ChunksCovering(n) ==
    {k \in ChunkIdx : chunks[k].start_line <= n /\ n <= chunks[k].end_line}

\* the lines of the content of chunk c
ContentLines(c) == Split(c.content)

\* the chunks whose content has the text of line n among its lines
ChunksHolding(n) ==
    {k \in ChunkIdx :
       \E m \in 1..Len(ContentLines(chunks[k])) :
         Strip(ContentLines(chunks[k])[m]) = Strip(lines[n])}

\* the number of non-blank lines in the contents of chunks 1..k
RECURSIVE NonBlankContentLines(_)
NonBlankContentLines(k) ==
    IF k = 0 THEN 0
    ELSE Cardinality({m \in 1..Len(ContentLines(chunks[k])) :
                        ~IsBlank(ContentLines(chunks[k])[m])})
         + NonBlankContentLines(k - 1)

(***************************************************************************)
(* C27: every non-blank source line belongs to the line range and to the   *)
(* content of exactly one emitted chunk: no non-blank line is dropped, a   *)
(* final line containing '|' included, and no line is in two chunks.       *)
(***************************************************************************)
C27_Coverage ==
    Done =>
      \A n \in 1..NumLines :
        ~IsBlank(lines[n]) =>
          /\ Cardinality(ChunksCovering(n)) = 1
          /\ ChunksCovering(n) \subseteq ChunksHolding(n)
          /\ NonBlankContentLines(Len(chunks))
                = Cardinality({m \in 1..NumLines : ~IsBlank(lines[m])})

\* the source lines of chunk c
SourceLines(c) == SubSeq(lines, c.start_line, c.end_line)

C28_ContentOfRange ==
    pc # "call" =>
      \A k \in ChunkIdx :
        LET c == chunks[k]
        IN  /\ 1 <= c.start_line /\ c.start_line <= c.end_line
            /\ c.end_line <= NumLines
            /\ IF c.chunk_type \in HeaderTypes
               THEN /\ c.start_line = c.end_line
                    /\ c.content = Strip(lines[c.start_line])
               ELSE /\ Split(c.content) = SourceLines(c)
                    /\ Len(Split(c.content)) = c.end_line - c.start_line + 1

C28_Advance ==
    LET n == Len(chunks')
    IN  (pc = "scan" /\ n > Len(chunks)) =>
          /\ chunks'[n].start_line = i + 1
          /\ i' = i + (chunks'[n].end_line - chunks'[n].start_line + 1)

(***************************************************************************)
(* C28: the content of every chunk is the source lines                     *)
(* start_line..end_line joined by newline (for a header chunk the single   *)
(* source line, trimmed); the content has end_line - start_line + 1 lines  *)
(* and the scanner advances by that many lines after emitting the chunk.   *)
(***************************************************************************)
C28_ContentIsSourceRange == []C28_ContentOfRange /\ [][C28_Advance]_vars

(***************************************************************************)
(* C29: every source line matching the header pattern is a header chunk of *)
(* its own, so no Table, List or Content chunk holds a header line; every  *)
(* line of a Table chunk contains '|'; every line of a List chunk is a     *)
(* list item without '|'; no line of a Content chunk is a header, a list   *)
(* item or contains '|'.                                                   *)
(***************************************************************************)
C29_TypePurity ==
    Done =>
      /\ \A n \in 1..NumLines :
           IsHeaderLine(lines[n]) =>
             \E k \in ChunkIdx :
               /\ chunks[k].chunk_type \in HeaderTypes
               /\ chunks[k].start_line = n /\ chunks[k].end_line = n
      /\ \A k \in ChunkIdx :
           \A m \in 1..Len(ContentLines(chunks[k])) :
             LET line == ContentLines(chunks[k])[m]
                 type == chunks[k].chunk_type
             IN  /\ type \notin HeaderTypes => ~IsHeaderLine(line)
                 /\ type = "table" => HasPipe(line)
                 /\ type = "list" => (IsListItem(line) /\ ~HasPipe(line))
                 /\ type = "content" =>
                      (~IsListItem(line) /\ ~HasPipe(line))

\* the records stored under namespace ns
StoredIn(ns) == {e.record : e \in {d \in index : d.namespace = ns}}

\* the job has processed the same filename twice, both times with success,
\* and holds the records of the second run
IndexedTwice ==
    /\ pc = "job"
    /\ file_pos = 2
    /\ files[1].filename = files[2].filename
    /\ processed_files[1].status = "success"
    /\ processed_files[2].status = "success"

(***************************************************************************)
(* C30: re-indexing replaces a document: after process_and_store_content   *)
(* has run with success twice for the same filename and namespace, the     *)
(* records stored in that namespace are exactly the records of the second  *)
(* run; no record of the first run survives, also when the second run      *)
(* produces fewer chunks than the first.                                   *)
(***************************************************************************)
C30_ReindexReplaces ==
    IndexedTwice =>
      StoredIn(namespace) = {records[k] : k \in 1..Len(records)}

====
